---- MODULE Spec2Model ----
(***************************************************************************)
(* Model of electrum/gui/qt/amountedit.py: the AmountEdit, BTCAmountEdit   *)
(* and FeerateEdit line-edit widgets.                                      *)
(*                                                                         *)
(* A text is a sequence of one-character strings.  Numbers are kept as     *)
(* digit sequences (Python ints and Decimals are unbounded), so that the   *)
(* 28-digit precision of the default decimal context is part of the model. *)
(***************************************************************************)
EXTENDS Integers, Sequences, FiniteSets, TLC

(***************************************************************************)
(* Bounds of the model.                                                    *)
(***************************************************************************)
\* longest text handed to setText, and longest text a key may extend
MaxLen == 3
\* decimal_point() values 0..MaxDecimalPoint (and the default 8) are drawn
MaxDecimalPoint == 1
\* setAmount arguments 0..MaxAmount (and a few larger ones) are drawn
MaxAmount == 5
\* nesting depth of textChanged -> numbify -> setText at which the model
\* gives up and reports the recursion as not terminating
NestLimit == 4

(***************************************************************************)
(* Program constants.                                                      *)
(***************************************************************************)
\* AmountEdit.decimal_point() returns 8
DefaultDecimalPoint == 8
\* '\d{0,8}' : integer digits the validator's regular expression admits
ValidatorIntDigits == 8
\* electrum.util.FEERATE_PRECISION
FEERATE_PRECISION == 1
\* decimal.getcontext().prec of the default context used by Decimal
DecimalPrec == 28

\* Python None, and "get_amount has not been called since the text was written"
None == [type |-> "None"]

NoCall == [type |-> "NoCall"]

\* an exception that reaches the caller
Raised == [type |-> "Raised"]

\* an operation without an argument
NoArg == [type |-> "NoArg"]

(***************************************************************************)
(* Characters and strings.                                                 *)
(***************************************************************************)
DigitSeq == <<"0", "1", "2", "3", "4", "5", "6", "7", "8", "9">>

\* chars = '0123456789'
DigitChars == {DigitSeq[i] : i \in 1..10}

DigitVal(c) == CHOOSE d \in 0..9 : DigitSeq[d + 1] = c

\* characters the environment types or writes
Alphabet == {"0", "5", ".", "!", " ", "a", "-"}

Whitespace == {" "}

Strings(n) == UNION {[1..k -> Alphabet] : k \in 0..n}

Repeat(c, n) == [i \in 1..n |-> c]

RECURSIVE LStrip(_)
LStrip(t) == IF t # <<>> /\ Head(t) \in Whitespace THEN LStrip(Tail(t)) ELSE t

RECURSIVE RStrip(_)
RStrip(t) == IF t # <<>> /\ t[Len(t)] \in Whitespace THEN RStrip(SubSeq(t, 1, Len(t) - 1)) ELSE t

\* str.strip()
Strip(t) == RStrip(LStrip(t))

\* ''.join([i for i in text if i in chars])
Keep(t, chars) == SelectSeq(t, LAMBDA c : c \in chars)

\* s.find('.') as a 0-based index, -1 when absent
Find(s, c) == IF \E i \in 1..Len(s) : s[i] = c THEN (CHOOSE i \in 1..Len(s) : s[i] = c /\ \A j \in 1..(i - 1) : s[j] # c) - 1 ELSE -1

\* s[a:b] for 0 <= a
Slice(s, a, b) == SubSeq(s, a + 1, IF b < Len(s) THEN b ELSE Len(s))

(***************************************************************************)
(* AmountEdit.numbify: the text it computes from the stripped text.        *)
(***************************************************************************)
\* the mutant keeps every '.' of the text
NumbifyKeepDots(t, isInt, mp) == Keep(t, IF isInt THEN DigitChars ELSE DigitChars \cup {"."})

\* the mutant removes only the first character that is not allowed
NumbifyDropsFirst(t, isInt, mp) == LET chars == IF isInt THEN DigitChars ELSE DigitChars \cup {"."}
                                       bad == {i \in 1..Len(t) : t[i] \notin chars}
                                       b == CHOOSE i \in bad : \A j \in bad : i <= j
                                   IN IF bad = {} THEN t ELSE SubSeq(t, 1, b - 1) \o SubSeq(t, b + 1, Len(t))

\* s as numbify leaves it: filtered, one '.', the fraction cut to mp digits
NumbifyText(t, isInt, mp) == LET chars == IF isInt THEN DigitChars ELSE DigitChars \cup {"."}
                                 s == Keep(t, chars)
                                 p == Find(s, ".")
                                 d == Keep(s, DigitChars)
                             IN IF ~isInt /\ p >= 0 THEN Slice(d, 0, p) \o <<".">> \o Slice(d, p, p + mp) ELSE s

(***************************************************************************)
(* Python numbers: [type, neg, coef, exp], type "int" (exp = 0) or         *)
(* "Decimal", coef the digits of the coefficient without leading zeros.    *)
(***************************************************************************)
RECURSIVE StripLead(_)
StripLead(ds) == IF ds = <<>> THEN <<"0">> ELSE IF Len(ds) > 1 /\ Head(ds) = "0" THEN StripLead(Tail(ds)) ELSE ds

IsZero(ds) == \A i \in 1..Len(ds) : ds[i] = "0"

\* the digit sequence plus one, same length; all nines wrap to all zeros
RECURSIVE Increment(_)
Increment(ds) == IF ds = <<>> THEN <<>> ELSE LET n == Len(ds) IN IF ds[n] = "9" THEN Increment(SubSeq(ds, 1, n - 1)) \o <<"0">> ELSE SubSeq(ds, 1, n - 1) \o <<DigitSeq[DigitVal(ds[n]) + 2]>>

\* ROUND_HALF_EVEN: whether dropping `rest` after `kept` rounds up
RoundsUp(kept, rest) == LET first == DigitVal(Head(rest))
                            tail == Tail(rest)
                        IN \/ first > 5
                           \/ first = 5 /\ ~IsZero(tail)
                           \/ first = 5 /\ IsZero(tail) /\ DigitVal(kept[Len(kept)]) % 2 = 1

\* Decimal._fix: round the coefficient to the context's precision
Fix(x) == IF Len(x.coef) <= DecimalPrec THEN x ELSE LET kept == SubSeq(x.coef, 1, DecimalPrec)
                                                         rest == SubSeq(x.coef, DecimalPrec + 1, Len(x.coef))
                                                         drop == Len(x.coef) - DecimalPrec
                                                         up == Increment(kept)
                                                     IN IF ~RoundsUp(kept, rest) THEN [x EXCEPT !.coef = kept, !.exp = @ + drop]
                                                        ELSE IF IsZero(up) THEN [x EXCEPT !.coef = <<"1">> \o SubSeq(up, 1, DecimalPrec - 1), !.exp = @ + drop + 1]
                                                        ELSE [x EXCEPT !.coef = up, !.exp = @ + drop]

\* the sign and the unsigned rest of a stripped numeric literal
SignOf(s) == s # <<>> /\ Head(s) = "-"

Unsigned(s) == IF s # <<>> /\ Head(s) \in {"-", "+"} THEN Tail(s) ELSE s

\* Decimal(str): None when the constructor raises InvalidOperation
DecimalOfStr(t) == LET s == Strip(t)
                       u == Unsigned(s)
                       ds == Keep(u, DigitChars)
                       p == Find(u, ".")
                   IN IF /\ \A i \in 1..Len(u) : u[i] \in DigitChars \cup {"."}
                         /\ Len(u) - Len(ds) <= 1
                         /\ ds # <<>>
                      THEN [type |-> "Decimal", neg |-> SignOf(s), coef |-> StripLead(ds), exp |-> IF p < 0 THEN 0 ELSE -(Len(u) - p - 1)]
                      ELSE None

\* int(str): None when it raises ValueError
IntOfStr(t) == LET s == Strip(t)
                   u == Unsigned(s)
               IN IF u # <<>> /\ \A i \in 1..Len(u) : u[i] \in DigitChars
                  THEN [type |-> "int", neg |-> SignOf(s) /\ ~IsZero(u), coef |-> StripLead(u), exp |-> 0]
                  ELSE None

\* pow(10, m) * x in the default context
MulPow10(x, m) == Fix([x EXCEPT !.coef = IF IsZero(@) THEN <<"0">> ELSE @ \o Repeat("0", m)])

\* int(x) of a Decimal: truncation toward zero
IntOfDecimal(x) == LET k == Len(x.coef) + x.exp
                       ds == IF x.exp >= 0 THEN x.coef \o Repeat("0", x.exp) ELSE IF k > 0 THEN SubSeq(x.coef, 1, k) ELSE <<"0">>
                   IN [type |-> "int", neg |-> x.neg /\ ~IsZero(ds), coef |-> StripLead(ds), exp |-> 0]

RECURSIVE TowardIdeal(_)
TowardIdeal(x) == IF x.exp < 0 /\ x.coef[Len(x.coef)] = "0" THEN TowardIdeal([x EXCEPT !.coef = SubSeq(@, 1, Len(@) - 1), !.exp = @ + 1]) ELSE x

\* Decimal(n) / pow(10, e) for an int n: exact, brought toward the ideal
\* exponent 0, then rounded to the context's precision
DivPow10(n, e) == IF IsZero(n.coef) THEN [type |-> "Decimal", neg |-> n.neg, coef |-> <<"0">>, exp |-> 0] ELSE Fix(TowardIdeal([type |-> "Decimal", neg |-> n.neg, coef |-> n.coef, exp |-> -e]))

RECURSIVE NatDigits(_)
NatDigits(n) == IF n < 10 THEN <<DigitSeq[n + 1]>> ELSE NatDigits(n \div 10) \o <<DigitSeq[(n % 10) + 1]>>

\* the Python int n
IntVal(n) == [type |-> "int", neg |-> FALSE, coef |-> NatDigits(n), exp |-> 0]

(***************************************************************************)
(* get_amount.                                                             *)
(***************************************************************************)
\* AmountEdit.get_amount: (int if self.is_int else Decimal)(str(self.text()))
AmountEdit_get_amount(t, isInt) == IF isInt THEN IntOfStr(t) ELSE DecimalOfStr(t)

\* the mutant forgets to scale to the unit
BTC_get_amount_noscale(t, dp, mp, isInt) == LET x == DecimalOfStr(t) IN IF x.type = "None" THEN None ELSE IntOfDecimal(x)

\* the mutant forgets to scale back
BTC_get_amount_noback(t, dp, mp, isInt) == LET x == DecimalOfStr(t) IN IF x.type = "None" THEN None ELSE IntOfDecimal(MulPow10(x, mp))

\* the mutant lets the parse error's None reach the arithmetic as zero
BTC_get_amount_zero(t, dp, mp, isInt) == LET x == DecimalOfStr(t) IN IF x.type = "None" THEN IntVal(0) ELSE IntOfDecimal(MulPow10(x, mp))

\* BTCAmountEdit.get_amount, dp = self.decimal_point(), mp = self.max_precision()
BTC_get_amount(t, dp, mp, isInt) == LET x == DecimalOfStr(t)
                                        max_prec_amount == IntOfDecimal(MulPow10(x, mp))
                                        amount == DivPow10(max_prec_amount, mp - dp)
                                    IN IF x.type = "None" THEN None
                                       ELSE IF mp = dp THEN max_prec_amount
                                       ELSE IF ~isInt THEN amount ELSE IntOfDecimal(amount)

\* electrum.util.quantize_feerate: None stays None, a number becomes a
\* Decimal with FEERATE_PRECISION fractional digits (every number it is
\* given here has at most that many), and a result the decimal context
\* cannot hold raises InvalidOperation
quantize_feerate(x) == IF x.type = "None" THEN None
                       ELSE IF x.exp <= -FEERATE_PRECISION THEN [x EXCEPT !.type = "Decimal"]
                       ELSE IF IsZero(x.coef) THEN [x EXCEPT !.type = "Decimal", !.exp = -FEERATE_PRECISION]
                       ELSE IF Len(x.coef) + x.exp + FEERATE_PRECISION > DecimalPrec THEN Raised
                       ELSE [x EXCEPT !.type = "Decimal", !.coef = @ \o Repeat("0", x.exp + FEERATE_PRECISION), !.exp = -FEERATE_PRECISION]

(***************************************************************************)
(* setAmount.                                                              *)
(***************************************************************************)
RECURSIVE RStripChar(_, _)
RStripChar(t, c) == IF t # <<>> /\ t[Len(t)] = c THEN RStripChar(SubSeq(t, 1, Len(t) - 1), c) ELSE t

\* electrum.util.format_satoshis_plain: x / 10^dp as a plain decimal string,
\* trailing zeros of the fraction and a trailing '.' removed
format_satoshis_plain(x, dp) == LET ds == x.coef \o Repeat("0", IF x.exp > 0 THEN x.exp ELSE 0)
                                    fr == dp + (IF x.exp < 0 THEN -x.exp ELSE 0)
                                    padded == Repeat("0", IF Len(ds) <= fr THEN fr + 1 - Len(ds) ELSE 0) \o ds
                                    k == Len(padded) - fr
                                IN RStripChar(RStripChar(SubSeq(padded, 1, k) \o <<".">> \o SubSeq(padded, k + 1, Len(padded)), "0"), ".")

\* "%d" % x for an int x
FormatD(x) == (IF x.neg THEN <<"-">> ELSE <<>>) \o x.coef

(***************************************************************************)
(* The widget.                                                             *)
(***************************************************************************)
VARIABLES kind, is_int, extra_precision, decimal_point, validatorPrec, hasFocus, text, cursor, modified, lastOp, arg, shortcutEmits, textChanges, numbifyCalls, overflow, forwarded, menuOpened, sat, result

vars == <<kind, is_int, extra_precision, decimal_point, validatorPrec, hasFocus, text, cursor, modified, lastOp, arg, shortcutEmits, textChanges, numbifyCalls, overflow, forwarded, menuOpened, sat, result>>

Kinds == {"AmountEdit", "BTCAmountEdit", "FeerateEdit"}

\* values the decimal_point callable handed to BTCAmountEdit may return
DecimalPoints == (0..MaxDecimalPoint) \cup {DefaultDecimalPoint}

\* AmountEdit.max_precision
max_precision(dp, extra) == dp + extra

\* AmountEdit.__init__: the validator's regular expression is built from
\* max_precision() while decimal_point is still the method of the class and
\* extra_precision is 0
AmountEdit_init(isInt) == [kind |-> "AmountEdit", is_int |-> isInt, extra_precision |-> 0, decimal_point |-> DefaultDecimalPoint, validatorPrec |-> max_precision(DefaultDecimalPoint, 0)]

\* BTCAmountEdit.__init__: AmountEdit.__init__, then self.decimal_point = decimal_point
BTCAmountEdit_init(dp, isInt) == [AmountEdit_init(isInt) EXCEPT !.kind = "BTCAmountEdit", !.decimal_point = dp]

\* FeerateEdit.__init__: BTCAmountEdit.__init__, then self.extra_precision = FEERATE_PRECISION
FeerateEdit_init(dp, isInt) == [BTCAmountEdit_init(dp, isInt) EXCEPT !.kind = "FeerateEdit", !.extra_precision = FEERATE_PRECISION]

\* the constructor of class k
Construct(k, dp, isInt) == IF k = "AmountEdit" THEN AmountEdit_init(isInt) ELSE IF k = "BTCAmountEdit" THEN BTCAmountEdit_init(dp, isInt) ELSE FeerateEdit_init(dp, isInt)

\* the line edit as the handlers see it, with what the current operation
\* has emitted and called so far
Widget == [text |-> text, cursor |-> cursor, modified |-> modified, is_int |-> is_int, mp |-> max_precision(decimal_point, extra_precision), hasFocus |-> hasFocus, shortcut |-> 0, changes |-> 0, calls |-> 0, depth |-> 0, overflow |-> FALSE]

RECURSIVE numbify(_), setText(_, _)

\* the mutant rewrites the text before it looks for the shortcut
numbifyShortcutLate(w) == LET t == Strip(w.text)
                              pos == w.cursor
                              w1 == setText([w EXCEPT !.calls = @ + 1, !.depth = @ + 1], NumbifyText(t, w.is_int, w.mp))
                              w2 == [w1 EXCEPT !.modified = w.hasFocus, !.depth = w.depth, !.cursor = IF pos <= Len(w1.text) THEN pos ELSE @]
                          IN IF t = <<"!">> THEN [w2 EXCEPT !.shortcut = @ + 1] ELSE w2

\* AmountEdit.numbify, the slot of textChanged
numbify(w) == LET t == Strip(w.text)
                  pos == w.cursor
                  s == NumbifyText(t, w.is_int, w.mp)
                  w1 == setText([w EXCEPT !.calls = @ + 1, !.depth = @ + 1], s)
                  w2 == [w1 EXCEPT !.modified = w.hasFocus, !.depth = w.depth]
              IN IF t = <<"!">> THEN [w EXCEPT !.shortcut = @ + 1, !.calls = @ + 1]
                 ELSE [w2 EXCEPT !.cursor = IF pos <= Len(w2.text) THEN pos ELSE @]

\* QLineEdit.setText: the text is written unvalidated, the cursor goes to its
\* end, the modified flag is cleared, and textChanged is emitted when the text
\* differs from the old one
setText(w, t) == LET w1 == [w EXCEPT !.text = t, !.cursor = Len(t), !.modified = FALSE]
                 IN IF t = w.text THEN w1
                    ELSE IF w.depth >= NestLimit THEN [w1 EXCEPT !.overflow = TRUE]
                    ELSE numbify([w1 EXCEPT !.changes = @ + 1])

\* QRegExpValidator over '\d{0,8}($|\.\d{0,N})', N fixed when __init__ ran
ValidatorAccepts(t, n) == LET p == Find(t, ".")
                              ds == Keep(t, DigitChars)
                          IN /\ \A i \in 1..Len(t) : t[i] \in DigitChars \cup {"."}
                             /\ Len(t) - Len(ds) <= 1
                             /\ (IF p < 0 THEN Len(t) ELSE p) <= ValidatorIntDigits
                             /\ (IF p < 0 THEN 0 ELSE Len(t) - p - 1) <= n

\* an edit by the user: kept when the validator accepts the new text, and
\* then textChanged is emitted
UserEdit(w, t, c, n) == IF t = w.text \/ ~ValidatorAccepts(t, n) THEN w ELSE numbify([w EXCEPT !.text = t, !.cursor = c, !.modified = TRUE, !.changes = @ + 1])

ClipboardKeys == {"Paste", "Copy", "Cut"}

EditKeys == {"Backspace"}

\* the clipboard's text
Clipboard == <<"5">>

\* QLineEdit.keyPressEvent
QLineEdit_keyPressEvent(w, k, n) == LET c == w.cursor
                                        before == SubSeq(w.text, 1, c)
                                        after == SubSeq(w.text, c + 1, Len(w.text))
                                    IN IF k \in Alphabet THEN UserEdit(w, before \o <<k>> \o after, c + 1, n)
                                       ELSE IF k = "Paste" THEN UserEdit(w, before \o Clipboard \o after, c + Len(Clipboard), n)
                                       ELSE IF k = "Backspace" /\ c > 0 THEN UserEdit(w, SubSeq(w.text, 1, c - 1) \o after, c - 1, n)
                                       ELSE w

\* the mutant suppresses Paste only
keyPressEventCopyCut(w, k, n) == IF k = "Paste" THEN [w |-> w, forwarded |-> 0] ELSE [w |-> QLineEdit_keyPressEvent(w, k, n), forwarded |-> 1]

\* AmountEdit.keyPressEvent
keyPressEvent(w, k, n) == IF k \in ClipboardKeys THEN [w |-> w, forwarded |-> 0] ELSE [w |-> QLineEdit_keyPressEvent(w, k, n), forwarded |-> 1]

\* AmountEdit.setAmount
AmountEdit_setAmount(w, x) == IF x.type = "None" THEN w ELSE setText(w, FormatD(x))

\* BTCAmountEdit.setAmount
BTC_setAmount(w, x, dp) == IF x.type = "None" THEN setText(w, <<" ">>) ELSE setText(w, format_satoshis_plain(x, dp))

\* FeerateEdit.setAmount
Feerate_setAmount(w, x, dp) == IF quantize_feerate(x).type = "Raised" THEN w ELSE BTC_setAmount(w, quantize_feerate(x), dp)

\* setAmount of the widget's class
setAmount(w, x) == IF kind = "AmountEdit" THEN AmountEdit_setAmount(w, x) ELSE IF kind = "BTCAmountEdit" THEN BTC_setAmount(w, x, decimal_point) ELSE Feerate_setAmount(w, x, decimal_point)

\* get_amount of the widget's class
get_amount(k, t, dp, mp, isInt) == IF k = "AmountEdit" THEN AmountEdit_get_amount(t, isInt) ELSE IF k = "BTCAmountEdit" THEN BTC_get_amount(t, dp, mp, isInt) ELSE quantize_feerate(BTC_get_amount(t, dp, mp, isInt))

\* AmountEdit.contextMenuEvent: pass
contextMenuEvent(m) == m

(***************************************************************************)
(* What the environment hands to the widget.                               *)
(***************************************************************************)
\* the longest text the decimal context holds exactly, and one digit more
LongTexts == {Repeat("5", DecimalPrec), Repeat("5", DecimalPrec + 1)}

\* texts the callers of a widget in use write with setText
CallerTexts == {<<>>, <<"!">>, <<" ", "!", " ">>, <<" ">>, <<"5", ".", "5", ".", "5">>, <<"-", "5", "a">>} \cup LongTexts

\* every text a caller may write; the exhaustive check of numbify draws from it
TextInputs == Strings(MaxLen) \cup CallerTexts

\* texts a widget in use may already hold when the caller writes
PriorTexts == {<<>>, <<"!">>, <<"5", ".">>}

Keys == Alphabet \cup EditKeys \cup ClipboardKeys

AmountInputs == {None} \cup {IntVal(n) : n \in (0..MaxAmount) \cup {100, 150, 100000000}} \cup {[type |-> "int", neg |-> FALSE, coef |-> Repeat("5", DecimalPrec + 1), exp |-> 0]}

(***************************************************************************)
(* The state machine.                                                      *)
(***************************************************************************)
\* the fields the constructor of class k leaves
Constructed(k, dp, isInt) == LET c == Construct(k, dp, isInt)
                             IN /\ kind = c.kind
                                /\ is_int = c.is_int
                                /\ extra_precision = c.extra_precision
                                /\ decimal_point = c.decimal_point
                                /\ validatorPrec = c.validatorPrec

\* what no operation has touched yet
Untouched == /\ modified = FALSE
             /\ lastOp = "__init__"
             /\ shortcutEmits = 0
             /\ textChanges = 0
             /\ numbifyCalls = 0
             /\ overflow = FALSE
             /\ forwarded = 0
             /\ menuOpened = FALSE
             /\ sat = NoCall
             /\ result = NoCall

\* the state once the constructor has returned: an empty, unfocused line edit
Init == /\ \E k \in Kinds, dp \in DecimalPoints, isInt \in BOOLEAN : Constructed(k, dp, isInt)
        /\ hasFocus = FALSE
        /\ text = <<>>
        /\ cursor = 0
        /\ arg = NoArg
        /\ Untouched

\* the state an operation leaves: the line edit w, and what the operation did
Leaves(w, op, a, fwd) == /\ text' = w.text
                         /\ cursor' = w.cursor
                         /\ modified' = w.modified
                         /\ shortcutEmits' = w.shortcut
                         /\ textChanges' = w.changes
                         /\ numbifyCalls' = w.calls
                         /\ overflow' = w.overflow
                         /\ lastOp' = op
                         /\ arg' = a
                         /\ forwarded' = fwd
                         /\ sat' = NoCall
                         /\ result' = NoCall
                         /\ UNCHANGED <<kind, is_int, extra_precision, validatorPrec>>

\* a caller writes a text: QLineEdit.setText
SetText == \E t \in CallerTexts : Leaves(setText(Widget, t), "setText", NoArg, 0) /\ UNCHANGED <<decimal_point, hasFocus, menuOpened>>

\* a caller sets an amount, or None
SetAmount == \E x \in AmountInputs : Leaves(setAmount(Widget, x), "setAmount", x, 0) /\ UNCHANGED <<decimal_point, hasFocus, menuOpened>>

\* the user presses a key in the focused line edit
KeyPress == /\ hasFocus
            /\ \E k \in Keys :
                  /\ k \in Alphabet => Len(text) < MaxLen
                  /\ LET r == keyPressEvent(Widget, k, validatorPrec)
                     IN Leaves(r.w, "keyPressEvent", [type |-> "key", clipboard |-> k \in ClipboardKeys], r.forwarded)
            /\ UNCHANGED <<decimal_point, hasFocus, menuOpened>>

\* the user asks for the context menu
ContextMenu == /\ menuOpened' = contextMenuEvent(menuOpened)
               /\ UNCHANGED <<kind, is_int, extra_precision, decimal_point, validatorPrec, hasFocus, text, cursor, modified, lastOp, arg, shortcutEmits, textChanges, numbifyCalls, overflow, forwarded, sat, result>>

\* the line edit gains or loses the keyboard focus
Focus == /\ hasFocus' = ~hasFocus
         /\ UNCHANGED <<kind, is_int, extra_precision, decimal_point, validatorPrec, text, cursor, modified, lastOp, arg, shortcutEmits, textChanges, numbifyCalls, overflow, forwarded, menuOpened, sat, result>>

\* the application's unit changes: the decimal_point callable handed to
\* BTCAmountEdit.__init__ returns another value from now on
ChangeUnit == /\ kind # "AmountEdit"
              /\ \E d \in DecimalPoints \ {decimal_point} : decimal_point' = d
              /\ Leaves(Widget, "unit", NoArg, 0)
              /\ UNCHANGED <<hasFocus, menuOpened>>

\* a caller reads the amount
GetAmount == /\ result' = get_amount(kind, text, decimal_point, max_precision(decimal_point, extra_precision), is_int)
             /\ sat' = IF kind = "AmountEdit" THEN NoCall ELSE BTC_get_amount(text, decimal_point, max_precision(decimal_point, extra_precision), is_int)
             /\ UNCHANGED <<kind, is_int, extra_precision, decimal_point, validatorPrec, hasFocus, text, cursor, modified, lastOp, arg, shortcutEmits, textChanges, numbifyCalls, overflow, forwarded, menuOpened>>

Next == SetText \/ SetAmount \/ KeyPress \/ ContextMenu \/ Focus \/ ChangeUnit \/ GetAmount

Spec == Init /\ [][Next]_vars

(***************************************************************************)
(* numbify over every text: a widget of any class, focused or not, holding *)
(* one of PriorTexts, and a caller about to write the text in arg.         *)
(***************************************************************************)
InitNumbify == /\ \E k \in Kinds, dp \in DecimalPoints, isInt \in BOOLEAN : Constructed(k, dp, isInt)
               /\ hasFocus \in BOOLEAN
               /\ text \in PriorTexts
               /\ cursor = Len(text)
               /\ arg \in {[type |-> "text", text |-> t] : t \in TextInputs}
               /\ Untouched

\* the caller writes the text in arg
WriteText == /\ lastOp = "__init__"
             /\ arg.type = "text"
             /\ Leaves(setText(Widget, arg.text), "setText", arg, 0)
             /\ UNCHANGED <<decimal_point, hasFocus, menuOpened>>

NextNumbify == WriteText

SpecNumbify == InitNumbify /\ [][NextNumbify]_vars

(***************************************************************************)
(* Vocabulary of the properties.                                           *)
(***************************************************************************)
\* the widget's max_precision() in the current state
MaxPrecision == max_precision(decimal_point, extra_precision)

\* the text's digits before and after its first '.'
IntDigits(t) == IF Find(t, ".") < 0 THEN Keep(t, DigitChars) ELSE Keep(SubSeq(t, 1, Find(t, ".")), DigitChars)

FracDigits(t) == IF Find(t, ".") < 0 THEN <<>> ELSE Keep(SubSeq(t, Find(t, ".") + 2, Len(t)), DigitChars)

Dots(t) == Len(Keep(t, {"."}))

\* a non-negative decimal literal: digits, at most one '.', at least one digit
IsLiteral(t) == /\ \A i \in 1..Len(t) : t[i] \in DigitChars \cup {"."}
                /\ Dots(t) <= 1
                /\ Keep(t, DigitChars) # <<>>

\* the number of significant digits of a literal
SigDigits(t) == Len(StripLead(Keep(t, DigitChars)))

\* a value coef * 10^exp in lowest terms: no leading zeros, no trailing
\* zeros, zero as <<"0">> * 10^0
RECURSIVE Lowest(_, _)
Lowest(coef, exp) == IF IsZero(coef) THEN [coef |-> <<"0">>, exp |-> 0]
                     ELSE IF coef[Len(coef)] = "0" THEN Lowest(SubSeq(coef, 1, Len(coef) - 1), exp + 1)
                     ELSE [coef |-> StripLead(coef), exp |-> exp]

\* the value of a returned number
ValueOf(r) == Lowest(r.coef, r.exp)

\* v * 10^d truncated toward zero to e fractional digits, v the value of
\* the literal t
Scaled(t, d, e) == LET fp == FracDigits(t)
                       n == IF Len(fp) < d + e THEN Len(fp) ELSE d + e
                   IN Lowest(IntDigits(t) \o SubSeq(fp, 1, n), d - n)

IsNumber(r) == r.type \in {"int", "Decimal"}



(***************************************************************************)
(* C1.  After numbify has run on a text whose stripped form is not '!',    *)
(* the widget's text holds only digits and, when is_int is false, at most  *)
(* one '.', with at most max_precision() digits after it; when is_int is   *)
(* true it holds no '.'.                                                   *)
(***************************************************************************)
\* C1: the text numbify leaves is digits with at most one '.' and at most
\* max_precision() fractional digits, and has no '.' when is_int is true
C1_NumbifyOutput == (lastOp = "setText" /\ numbifyCalls > 0 /\ Strip(arg.text) # <<"!">>) =>
                        /\ \A i \in 1..Len(text) : text[i] \in DigitChars \cup {"."}
                        /\ Dots(text) <= (IF is_int THEN 0 ELSE 1)
                        /\ Len(FracDigits(text)) <= MaxPrecision

\* a text with two '.' and three fractional digits, filtered to one '.' and
\* the single fractional digit a sat/byte FeerateEdit of unit 0 allows
C1_Witness == /\ lastOp = "setText"
              /\ numbifyCalls > 0
              /\ arg.text = <<"5", ".", "5", ".", "5">>
              /\ MaxPrecision = 1
              /\ text = <<"5", ".", "5">>

(***************************************************************************)
(* C2.  BTCAmountEdit.get_amount (extra_precision = 0): when the text is a *)
(* decimal literal of value v with at most decimal_point() fractional      *)
(* digits, the call returns the int v * 10^decimal_point exactly.          *)
(***************************************************************************)
C2_Exact == result.type = "int" /\ ValueOf(result) = Scaled(text, decimal_point, 0)

C2_Case == /\ kind = "BTCAmountEdit"
           /\ result # NoCall
           /\ IsLiteral(text)
           /\ Len(FracDigits(text)) <= decimal_point

\* C2 as stated: the result is exact for every such literal
C2_AnyLiteral == C2_Case => C2_Exact

\* C2 as amended: the result is exact for literals of at most DecimalPrec
\* (28) significant digits
C2_WithinPrecision == (C2_Case /\ SigDigits(text) <= DecimalPrec) => C2_Exact

\* '.5' in a BTCAmountEdit of unit 8 read as 50000000
C2_Witness == /\ C2_Case
              /\ decimal_point = DefaultDecimalPoint
              /\ text = <<".", "5">>
              /\ result = IntVal(50000000)

(***************************************************************************)
(* C3.  setAmount(n) followed by get_amount() of a BTCAmountEdit returns n *)
(* for every decimal_point and every non-negative int n.                   *)
(***************************************************************************)
C3_Case == /\ kind = "BTCAmountEdit"
           /\ lastOp = "setAmount"
           /\ arg.type = "int"
           /\ result # NoCall

\* C3 as stated, on the amounts the decimal context holds exactly (below
\* 10^DecimalPrec): the round trip returns n in every BTCAmountEdit
C3_RoundTrip == (C3_Case /\ Len(arg.coef) <= DecimalPrec) => result = arg

(***************************************************************************)
(* C4.  BTCAmountEdit.get_amount with extra_precision e > 0 returns        *)
(* v * 10^decimal_point truncated toward zero to e fractional digits, as a *)
(* Decimal when is_int is false and truncated to an int when it is true;   *)
(* with e = 0 it returns the int trunc(v * 10^decimal_point).              *)
(***************************************************************************)
C4_Case == IsNumber(sat)

C4_Result == IF extra_precision > 0 /\ ~is_int
             THEN sat.type = "Decimal" /\ ValueOf(sat) = Scaled(text, decimal_point, extra_precision)
             ELSE sat.type = "int" /\ ValueOf(sat) = Scaled(text, decimal_point, 0)

\* C4 as stated: the result is the truncated scaled value for every text
C4_AnyText == C4_Case => C4_Result

\* C4 as amended: the result is the truncated scaled value for texts of at
\* most DecimalPrec (28) significant digits
C4_WithinPrecision == (C4_Case /\ SigDigits(text) <= DecimalPrec) => C4_Result

\* '.55' left in a FeerateEdit whose unit went to 0: 0.55 is cut to the one
\* fractional digit of the fee rate
C4_Witness == /\ kind = "FeerateEdit"
              /\ ~is_int
              /\ decimal_point = 0
              /\ text = <<".", "5", "5">>
              /\ sat = [type |-> "Decimal", neg |-> FALSE, coef |-> <<"5">>, exp |-> -1]

(***************************************************************************)
(* C5.  Once the constructor has returned, the fractional-digit limit of   *)
(* the validator equals the widget's max_precision().                      *)
(***************************************************************************)
\* C5 as stated: after __init__ the validator admits max_precision()
\* fractional digits
C5_ValidatorPrecision == lastOp = "__init__" => validatorPrec = MaxPrecision

(***************************************************************************)
(* C6.  keyPressEvent never forwards Paste, Copy or Cut to the base        *)
(* handler and leaves the text unchanged for them; every other key is      *)
(* forwarded exactly once; contextMenuEvent never opens a menu.            *)
(***************************************************************************)
C6_KeyForwarding == (lastOp = "keyPressEvent" => forwarded = (IF arg.clipboard THEN 0 ELSE 1)) /\ ~menuOpened

C6_ClipboardFrame == (lastOp' = "keyPressEvent" /\ arg'.clipboard) => text' = text

\* C6: clipboard keys are never forwarded and leave the text as it was,
\* other keys are forwarded once, and no context menu opens
C6_ClipboardSuppressed == []C6_KeyForwarding /\ [][C6_ClipboardFrame]_vars

\* a clipboard key pressed in a line edit that holds a text
C6_Witness == /\ lastOp = "keyPressEvent"
              /\ arg.clipboard
              /\ forwarded = 0
              /\ text = <<"5", ".", "5">>

(***************************************************************************)
(* C7.  AmountEdit.get_amount and BTCAmountEdit.get_amount return None,    *)
(* and leave the text alone, when the text is no number (empty, a lone     *)
(* '.', the empty text setAmount(None) leaves); they return a number when  *)
(* the text numbify produced holds a digit.                                *)
(***************************************************************************)
C7_Returned == IF kind = "AmountEdit" THEN result ELSE sat

C7_NoneOrNumber == /\ result # NoCall => (IF Keep(text, DigitChars) = <<>> THEN C7_Returned = None ELSE IsNumber(C7_Returned))
                   /\ (lastOp = "setAmount" /\ arg = None /\ kind = "BTCAmountEdit") => text = <<>>

C7_TextKept == (result = NoCall /\ result' # NoCall) => text' = text

\* C7: get_amount returns None for a text without digits, a number for a
\* text with one, and never changes the text
C7_GetAmountNone == []C7_NoneOrNumber /\ [][C7_TextKept]_vars

\* get_amount after setAmount(None) on a BTCAmountEdit that held a text
C7_Witness == /\ kind = "BTCAmountEdit"
              /\ lastOp = "setAmount"
              /\ arg = None
              /\ textChanges = 2
              /\ text = <<>>
              /\ result = None

(***************************************************************************)
(* C8.  When the text changes to a string whose stripped form is '!',      *)
(* numbify emits shortcut once and returns without rewriting the text, the *)
(* cursor position or the modified flag; for every other text it never     *)
(* emits shortcut.                                                         *)
(***************************************************************************)
C8_Step == lastOp' = "setText" =>
               IF Strip(arg.text) = <<"!">> /\ arg.text # text
               THEN shortcutEmits' = 1 /\ numbifyCalls' = 1 /\ text' = arg.text /\ cursor' = Len(arg.text) /\ modified' = FALSE
               ELSE shortcutEmits' = 0

\* C8: a change to a text that strips to '!' emits shortcut once and
\* rewrites nothing; no other write emits it
C8_Shortcut == [][C8_Step]_vars

\* ' ! ' written into a focused line edit
C8_Witness == /\ lastOp = "setText"
              /\ hasFocus
              /\ shortcutEmits = 1
              /\ text = <<" ", "!", " ">>

(***************************************************************************)
(* C9.  The textChanged -> numbify -> setText loop terminates: numbify     *)
(* runs at most twice for one text change (once nested), and the text it   *)
(* leaves is a fixed point of its filter.                                  *)
(***************************************************************************)
\* C9: one text change runs numbify at most twice and leaves a fixed point
C9_Terminates == lastOp = "setText" =>
                     /\ ~overflow
                     /\ numbifyCalls <= 2
                     /\ numbifyCalls = textChanges
                     /\ (numbifyCalls > 0 /\ Strip(text) # <<"!">>) => NumbifyText(Strip(text), is_int, MaxPrecision) = text

\* a text that numbify rewrote, which raised textChanged once more
C9_Witness == /\ lastOp = "setText"
              /\ numbifyCalls = 2
              /\ arg.text = <<"-", "5", "a">>
              /\ text = <<"5">>

====
